---- MODULE Spec2Model ----
(***************************************************************************)
(* A model of the document question-answering pipeline:                    *)
(*   - AIAnswerGenerator (src/ai_generator.py): credential rotation and    *)
(*     the retry loop of generate_answer;                                  *)
(*   - SimpleDocumentProcessor (src/api/document_processor_simple.py):     *)
(*     clean_text and the create_chunks scan;                              *)
(*   - SimpleDocumentQAProcessor: simple_text_search, process_document and *)
(*     answer_question.                                                    *)
(* Texts are sequences of one-character strings; offsets are 0-based as in *)
(* the source and are converted at the point of indexing.                  *)
(***************************************************************************)
EXTENDS Integers, Sequences, FiniteSets, TLC

VARIABLES
    \* ---- AIAnswerGenerator ----
    api_keys,           \* self.api_keys: the credential pool
    current_key_index,  \* self.current_key_index: the rotation cursor
    gpc,                \* position of generate_answer: "idle" | "loop" | "raised"
    attempt,            \* the loop variable of generate_answer
    reqs,               \* requests of the current/last call: [key, outcome, sleep]
    ret,                \* result of the current/last call: "pending" | "None" | "answer"
    history,            \* completed calls: [keys, ok]
    \* ---- SimpleDocumentProcessor.create_chunks ----
    text,               \* the text being chunked
    chunk_size,         \* self.chunk_size
    chunk_overlap,      \* self.chunk_overlap
    start,              \* the scan position
    chunks,             \* the chunks emitted so far
    cpc,                \* position of create_chunks: "off" | "scan" | "done"
    iters,              \* loop iterations taken so far
    \* ---- SimpleDocumentQAProcessor ----
    ai_enabled,         \* self.ai_enabled (FALSE: self.ai_generator is None)
    document_text,      \* self.document_text
    document_chunks,    \* self.document_chunks
    qpc,                \* the processor: "off" | "ready" | "hung"
    last,               \* the last operation called and what it returned
    nops,               \* operations called so far
    seen,               \* history: was process_document called, did one succeed
    batch,              \* the last process_document_and_answer call and its result
    temp_files,         \* temporary files on disk, by the operation that made them
    \* the /hackrx/run handler
    inflight,           \* per request: position in process_questions and its locals
    running,            \* the request the event loop is running, 0 when it is free
    \* ---- simple_text_search called on its own ----
    query,              \* the query argument
    top_k,              \* the top_k argument
    results,            \* the returned list
    spc                 \* position of the search: "off" | "ready" | "done"

genVars == <<api_keys, current_key_index, gpc, attempt, reqs, ret, history>>
chunkVars == <<text, chunk_size, chunk_overlap, start, chunks, cpc, iters>>
qaVars == <<ai_enabled, document_text, document_chunks, qpc, last, nops, seen, batch,
           temp_files>>
searchVars == <<query, top_k, results, spc>>
serveVars == <<inflight, running>>
vars == <<genVars, chunkVars, qaVars, searchVars, serveVars>>

(***************************************************************************)
(* Bounds of the model.                                                    *)
(***************************************************************************)
MaxKeys == 2
MaxCalls == 2
MaxTextLen == 7
MaxChunkSize == 6
MaxIters == 9
ScaledChunkSize == 4
ScaledOverlap == 1
MaxDocLen == 6
MaxTopK == 3
MaxOps == 3

(***************************************************************************)
(* General helpers.                                                        *)
(***************************************************************************)
RECURSIVE Pow2(_)
Pow2(n) == IF n <= 0 THEN 1 ELSE 2 * Pow2(n - 1)

Min(a, b) == IF a < b THEN a ELSE b
Max(a, b) == IF a > b THEN a ELSE b

\* All sequences over S of length 0..n.
SeqsUpTo(S, n) == UNION {[1..k -> S] : k \in 0..n}

(***************************************************************************)
(* AIAnswerGenerator                                                       *)
(***************************************************************************)
max_retries == 3

\* The outcomes one requests.post attempt can have: a parseable 200 response,
\* a 200 response whose body does not parse, a network failure or timeout
\* (requests.exceptions.RequestException), or a non-200 status code.
NonOKStatus == {404, 429, 500, 502, 503, 504}
OkOutcome == [status |-> 200, fault |-> "none"]
BadBodyOutcome == [status |-> 200, fault |-> "body"]
NetErrOutcome == [status |-> 0, fault |-> "network"]
StatusOutcome(c) == [status |-> c, fault |-> "none"]
Outcomes == {OkOutcome, BadBodyOutcome, NetErrOutcome}
                \cup {StatusOutcome(c) : c \in NonOKStatus}

\* A faulty list: 502 is not backed off on.
BackoffStatusNo502 == {429, 500, 503}
\* The status codes the retry loop backs off on.
BackoffStatus == {429, 500, 502, 503}

\* Non-empty pools: the constructor raises ValueError on an empty one.
Pools == {[i \in 1..n |-> i] : n \in 1..MaxKeys}

\* get_next_api_key: the key under the cursor, and the advanced cursor.
KeyAt(keys, idx) == keys[idx + 1]
\* A faulty get_next_api_key: the cursor is never advanced.
NextIndexStuck(keys, idx) == idx
NextIndex(keys, idx) == (idx + 1) % Len(keys)

\* A faulty loop body: the backoff grows linearly instead of doubling.
HandleOutcomeLinear(o, att) ==
    CASE o.fault = "network" -> [do |-> "next", sleep |-> 1]
      [] o.fault = "body" -> [do |-> "next", sleep |-> 1]
      [] o.status = 200 -> [do |-> "return", sleep |-> 0]
      [] o.status \in BackoffStatus -> [do |-> "next", sleep |-> att + 1]
      [] OTHER -> [do |-> "next", sleep |-> 0]
\* A faulty loop body: only RequestException is caught, a parse error propagates.
HandleOutcomeNoCatch(o, att) ==
    CASE o.fault = "network" -> [do |-> "next", sleep |-> 1]
      [] o.fault = "body" -> [do |-> "raise", sleep |-> 0]
      [] o.status = 200 -> [do |-> "return", sleep |-> 0]
      [] o.status \in BackoffStatus -> [do |-> "next", sleep |-> Pow2(att)]
      [] OTHER -> [do |-> "next", sleep |-> 0]
\* The body of one loop iteration after the response (or exception) is in:
\* what the loop does next and how long it sleeps first (0: no sleep).
HandleOutcome(o, att) ==
    CASE o.fault = "network" -> [do |-> "next", sleep |-> 1]
      [] o.fault = "body" -> [do |-> "next", sleep |-> 1]
      [] o.status = 200 -> [do |-> "return", sleep |-> 0]
      [] o.status \in BackoffStatus -> [do |-> "next", sleep |-> Pow2(att)]
      [] OTHER -> [do |-> "next", sleep |-> 0]

GenInit ==
    /\ api_keys \in Pools
    /\ current_key_index = 0
    /\ gpc = "idle"
    /\ attempt = 0
    /\ reqs = <<>>
    /\ ret = "pending"
    /\ history = <<>>

\* generate_answer is entered: the loop starts at attempt 0.
GenStart ==
    /\ gpc = "idle"
    /\ Len(history) < MaxCalls
    /\ gpc' = "loop"
    /\ attempt' = 0
    /\ reqs' = <<>>
    /\ ret' = "pending"
    /\ UNCHANGED <<api_keys, current_key_index, history>>
    /\ UNCHANGED <<chunkVars, qaVars, searchVars, serveVars>>

\* One iteration of the retry loop with outcome o.
GenAttempt(o) ==
    /\ gpc = "loop"
    /\ attempt < max_retries
    /\ LET key == KeyAt(api_keys, current_key_index)
           h == HandleOutcome(o, attempt)
           r == [key |-> key, outcome |-> o, sleep |-> h.sleep]
           all == Append(reqs, r)
       IN  /\ current_key_index' = NextIndex(api_keys, current_key_index)
           /\ reqs' = all
           /\ CASE h.do = "return" ->
                     /\ ret' = "answer"
                     /\ gpc' = "idle"
                     /\ attempt' = attempt
                     /\ history' = Append(history,
                            [keys |-> [i \in 1..Len(all) |-> all[i].key], ok |-> TRUE])
                [] h.do = "next" ->
                     /\ attempt' = attempt + 1
                     /\ UNCHANGED <<ret, gpc, history>>
                [] OTHER ->
                     /\ gpc' = "raised"
                     /\ UNCHANGED <<ret, attempt, history>>
    /\ UNCHANGED api_keys
    /\ UNCHANGED <<chunkVars, qaVars, searchVars, serveVars>>

\* The loop is exhausted: return None.
GenExhaust ==
    /\ gpc = "loop"
    /\ attempt >= max_retries
    /\ ret' = "None"
    /\ gpc' = "idle"
    /\ history' = Append(history,
           [keys |-> [i \in 1..Len(reqs) |-> reqs[i].key], ok |-> FALSE])
    /\ UNCHANGED <<api_keys, current_key_index, attempt, reqs>>
    /\ UNCHANGED <<chunkVars, qaVars, searchVars, serveVars>>

ChunkOff ==
    /\ text = <<>>
    /\ chunk_size = 1
    /\ chunk_overlap = 0
    /\ start = 0
    /\ chunks = <<>>
    /\ cpc = "off"
    /\ iters = 0

\* The shape of a recorded orchestrator call.
Call(op, outcome, success, answer, context_used, confidence, input, retrieved, gen) ==
    [op |-> op, outcome |-> outcome, success |-> success, answer |-> answer,
     context_used |-> context_used, confidence |-> confidence, input |-> input,
     retrieved |-> retrieved, gen |-> gen]

NoOp == Call("none", "none", FALSE, "-", <<>>, "-", <<>>, <<>>, "-")
NothingSeen == [called |-> FALSE, succeeded |-> FALSE]
NoTempFiles == [extract |-> 0, handler |-> 0]
NoBatch == [outcome |-> "none", source |-> "-", questions |-> <<>>, answers |-> <<>>]

QAOff ==
    /\ ai_enabled = FALSE
    /\ document_text = <<>>
    /\ document_chunks = <<>>
    /\ qpc = "off"
    /\ last = NoOp
    /\ nops = 0
    /\ seen = NothingSeen
    /\ batch = NoBatch
    /\ temp_files = NoTempFiles

\* The two requests of an overlap.
Requests == {1, 2}
\* A request not received yet.
NoRequest ==
    [pc |-> "new", doc |-> [ok |-> FALSE, text |-> <<>>], questions |-> <<>>,
     next |-> 1, answers |-> <<>>, used |-> <<>>, err |-> FALSE, status |-> 0,
     temp |-> FALSE, overlapped |-> FALSE]
ServeOff ==
    /\ inflight = [i \in Requests |-> NoRequest]
    /\ running = 0

SearchOff ==
    /\ query = <<>>
    /\ top_k = 0
    /\ results = <<>>
    /\ spc = "off"

GenNext ==
    \/ GenStart
    \/ \E o \in Outcomes : GenAttempt(o)
    \/ GenExhaust

InitGen == GenInit /\ ChunkOff /\ QAOff /\ SearchOff /\ ServeOff

SpecGen == InitGen /\ [][GenNext]_vars

(***************************************************************************)
(* Claims about AIAnswerGenerator (checked under SpecGen).                 *)
(***************************************************************************)
RECURSIVE Flatten(_)
Flatten(ss) == IF ss = <<>> THEN <<>> ELSE Head(ss) \o Flatten(Tail(ss))

\* Every credential taken since construction, in the order taken.
KeyLog ==
    Flatten([i \in 1..Len(history) |-> history[i].keys])
        \o (IF gpc = "idle" THEN <<>> ELSE [i \in 1..Len(reqs) |-> reqs[i].key])

GenCompleted == gpc = "idle" /\ ret # "pending"
SleepsOf(rs) == [i \in 1..Len(rs) |-> rs[i].sleep]
AllStatus(rs, c) == \A i \in 1..Len(rs) : rs[i].outcome = StatusOutcome(c)
FirstTry(h) == h.ok /\ Len(h.keys) = 1

\* C1 (as stated): every generate_answer call takes exactly one credential,
\* so the cursor has advanced by one per completed call.
C1_OneCredentialPerCall ==
    \A i \in 1..Len(history) : Len(history[i].keys) = 1

\* C1 (amended): every attempt of generate_answer takes exactly one credential,
\* the one under the cursor, and advances the cursor by one modulo N, so the
\* credentials taken follow the rotation of the pool; N consecutive calls that
\* each succeed on their first attempt use each credential exactly once, in
\* rotation order.
C1_OneCredentialPerAttempt ==
    LET N == Len(api_keys) IN
    /\ \A k \in 1..Len(KeyLog) : KeyLog[k] = api_keys[((k - 1) % N) + 1]
    /\ current_key_index = Len(KeyLog) % N
    /\ \A j \in 1..Len(history) :
          (j + N - 1 <= Len(history) /\ \A i \in j..(j + N - 1) : FirstTry(history[i]))
            => /\ {history[i].keys[1] : i \in j..(j + N - 1)} = {api_keys[k] : k \in 1..N}
               /\ \A i \in j..(j + N - 2) :
                     history[i + 1].keys[1] = api_keys[(history[i].keys[1] % N) + 1]

C1_Witness ==
    /\ Len(api_keys) = 2
    /\ Len(history) = 2
    /\ FirstTry(history[1]) /\ FirstTry(history[2])

\* C2: if every attempt of a call receives status 503, the sleeps are 1, 2, 4
\* in that order, and the call ends after exactly max_retries requests with
\* the result None.
C2_All503 ==
    AllStatus(reqs, 503) =>
        /\ \A i \in 1..Len(reqs) : reqs[i].sleep = Pow2(i - 1)
        /\ GenCompleted =>
              /\ Len(reqs) = 3
              /\ SleepsOf(reqs) = <<1, 2, 4>>
              /\ ret = "None"

C2_Witness == GenCompleted /\ Len(reqs) = 3 /\ AllStatus(reqs, 503) /\ ret = "None"

\* C3: whatever the outcomes of the attempts, a call sends at most 3 requests,
\* sends none after the first parseable 200 response, never raises, and
\* returns None exactly when no attempt produced a parseable 200 response.
C3_BoundedNoRaise ==
    /\ Len(reqs) <= 3
    /\ \A i \in 1..Len(reqs) : reqs[i].outcome = OkOutcome => i = Len(reqs)
    /\ gpc # "raised"
    /\ GenCompleted =>
          /\ ret \in {"None", "answer"}
          /\ ret = "None" <=> (\A i \in 1..Len(reqs) : reqs[i].outcome # OkOutcome)

C3_Witness ==
    /\ GenCompleted /\ ret = "answer" /\ Len(reqs) = 3
    /\ reqs[1].outcome = BadBodyOutcome
    /\ reqs[2].outcome = NetErrOutcome

\* The successor of a credential in the rotation.
NextInRotation(k) == api_keys[(k % Len(api_keys)) + 1]
UsesNextCredential ==
    \A i \in 1..(Len(reqs) - 1) : reqs[i + 1].key = NextInRotation(reqs[i].key)
IsNon200(o) == o.fault = "none" /\ o.status # 200

\* C4 (as stated): the wait after failed attempt n is 2^(n-1) seconds for 429
\* and for any 5xx status, and none for every other non-200 status; the next
\* attempt uses the next credential.
C4_BackoffOnAny5xx ==
    /\ \A n \in 1..Len(reqs) :
          IsNon200(reqs[n].outcome) =>
            reqs[n].sleep =
              (IF reqs[n].outcome.status = 429 \/ reqs[n].outcome.status \in 500..599
                 THEN Pow2(n - 1) ELSE 0)
    /\ UsesNextCredential

\* C4 (amended): the wait after failed attempt n is 2^(n-1) seconds for the
\* statuses 429, 500, 502 and 503, and none for every other non-200 status
\* (other 5xx statuses such as 504 included); the next attempt uses the next
\* credential.
C4_BackoffOnListed ==
    /\ \A n \in 1..Len(reqs) :
          IsNon200(reqs[n].outcome) =>
            reqs[n].sleep =
              (IF reqs[n].outcome.status \in {429, 500, 502, 503}
                 THEN Pow2(n - 1) ELSE 0)
    /\ UsesNextCredential

C4_Witness ==
    /\ Len(api_keys) = 2
    /\ Len(reqs) = 3
    /\ reqs[1].outcome = StatusOutcome(504) /\ reqs[1].sleep = 0
    /\ reqs[2].outcome = StatusOutcome(502) /\ reqs[2].sleep = 2
    /\ reqs[3].outcome = StatusOutcome(404) /\ reqs[3].key = 1

(***************************************************************************)
(* Python string primitives, on texts as sequences of characters.          *)
(***************************************************************************)
Whitespace == {" ", "\n", "\t"}
IsSpace(c) == c \in Whitespace

\* A slice bound as Python adjusts it: a negative bound counts from the end,
\* and the result is clamped to 0..len.
AdjustIndex(i, n) == IF i < 0 THEN Max(i + n, 0) ELSE Min(i, n)

\* t.rfind(' ', s, e): the highest offset of a space in t[s:e], or -1.
RFindSpace(t, s, e) ==
    LET lo == AdjustIndex(s, Len(t))
        hi == AdjustIndex(e, Len(t))
        hits == {i \in lo..(hi - 1) : t[i + 1] = " "}
    IN  IF hits = {} THEN -1 ELSE CHOOSE i \in hits : \A j \in hits : j <= i

\* t[s:e]
Slice(t, s, e) ==
    LET lo == AdjustIndex(s, Len(t))
        hi == AdjustIndex(e, Len(t))
    IN  IF lo >= hi THEN <<>> ELSE SubSeq(t, lo + 1, hi)

\* t.strip()
RECURSIVE LStrip(_)
LStrip(t) == IF t # <<>> /\ IsSpace(Head(t)) THEN LStrip(Tail(t)) ELSE t
RECURSIVE RStrip(_)
RStrip(t) ==
    IF t # <<>> /\ IsSpace(t[Len(t)]) THEN RStrip(SubSeq(t, 1, Len(t) - 1)) ELSE t
Strip(t) == RStrip(LStrip(t))

(***************************************************************************)
(* SimpleDocumentProcessor.create_chunks                                   *)
(***************************************************************************)
\* The end of the window that starts at st: start + chunk_size, moved back to
\* the last space of the window when the window ends before the text does.
WindowEnd(t, cs, st) ==
    LET end == st + cs IN
    IF end < Len(t)
      THEN LET last_space == RFindSpace(t, st, end)
           IN  IF last_space > st THEN last_space ELSE end
      ELSE end

\* The chunk dictionary of a window; chunk_id counts the chunks emitted.
MakeChunk(chunk_id, chunk_text, st, end) ==
    [id |-> chunk_id, text |-> chunk_text, start_pos |-> st, end_pos |-> end,
     length |-> Len(chunk_text)]

\* One iteration of the while loop: the chunks and the scan position after it.
ChunkIter(t, cs, ov, st, chs) ==
    LET end == WindowEnd(t, cs, st)
        chunk_text == Strip(Slice(t, st, end))
    IN  [chunks |-> IF chunk_text # <<>>
                      THEN Append(chs, MakeChunk(Len(chs), chunk_text, st, end))
                      ELSE chs,
         start |-> end - ov]

Alphabet == {"a", " "}

ChunkInit ==
    /\ text \in SeqsUpTo(Alphabet, MaxTextLen)
    /\ chunk_size \in 1..MaxChunkSize
    /\ chunk_overlap \in 0..(chunk_size - 1)
    /\ start = 0
    /\ chunks = <<>>
    /\ cpc = "scan"
    /\ iters = 0

\* The loop condition holds: one iteration, left by the break when the new
\* start is at or past the end of the text.
ChunkScan ==
    /\ cpc = "scan"
    /\ start < Len(text)
    /\ iters < MaxIters
    /\ LET r == ChunkIter(text, chunk_size, chunk_overlap, start, chunks)
       IN  /\ chunks' = r.chunks
           /\ start' = r.start
           /\ cpc' = IF r.start >= Len(text) THEN "done" ELSE "scan"
    /\ iters' = iters + 1
    /\ UNCHANGED <<text, chunk_size, chunk_overlap>>
    /\ UNCHANGED <<genVars, qaVars, searchVars, serveVars>>

\* The loop condition fails: return chunks.
ChunkReturn ==
    /\ cpc = "scan"
    /\ start >= Len(text)
    /\ cpc' = "done"
    /\ UNCHANGED <<text, chunk_size, chunk_overlap, start, chunks, iters>>
    /\ UNCHANGED <<genVars, qaVars, searchVars, serveVars>>

GenOff ==
    /\ api_keys = <<1>>
    /\ current_key_index = 0
    /\ gpc = "idle"
    /\ attempt = 0
    /\ reqs = <<>>
    /\ ret = "pending"
    /\ history = <<>>

ChunkNext == ChunkScan \/ ChunkReturn

InitChunk == ChunkInit /\ GenOff /\ QAOff /\ SearchOff /\ ServeOff

SpecChunk == InitChunk /\ [][ChunkNext]_vars

(***************************************************************************)
(* Claims about create_chunks (checked under SpecChunk).                   *)
(***************************************************************************)
\* C5: create_chunks terminates: every iteration of the scan either ends the
\* scan (the end of the text is reached or passed) or moves the scan position
\* forward, so that a step without forward progress stops the scan.
C5_StopsOrAdvances ==
    [][cpc = "scan" => (cpc' = "done" \/ start' > start)]_vars

\* The positions of t that hold a non-whitespace character.
InkPositions(t) == {p \in 0..(Len(t) - 1) : ~IsSpace(t[p + 1])}
Covers(c, p) == c.start_pos <= p /\ p < c.end_pos

\* C6: the chunks returned for a non-empty text cover it: every position that
\* holds a non-whitespace character lies in the [start_pos, end_pos) window of
\* an emitted chunk.
C6_ChunksCoverText ==
    (cpc = "done" /\ text # <<>>) =>
        \A p \in InkPositions(text) :
            \E i \in 1..Len(chunks) : Covers(chunks[i], p)

\* C7: at every point of the scan the chunks emitted so far have
\* non-decreasing start_pos in emission order.
C7_StartPosNonDecreasing ==
    \A i \in 1..(Len(chunks) - 1) : chunks[i].start_pos <= chunks[i + 1].start_pos

(***************************************************************************)
(* SimpleDocumentProcessor.clean_text and create_chunks as one call        *)
(***************************************************************************)
\* re.sub(r'\s+', ' ', text)
RECURSIVE CollapseWhitespace(_)
CollapseWhitespace(t) ==
    IF t = <<>> THEN <<>>
    ELSE IF IsSpace(Head(t)) THEN <<" ">> \o CollapseWhitespace(LStrip(t))
    ELSE <<Head(t)>> \o CollapseWhitespace(Tail(t))

\* re.sub(r'\n+', '\n', text)
RECURSIVE CollapseNewlines(_)
CollapseNewlines(t) ==
    IF t = <<>> THEN <<>>
    ELSE IF Head(t) = "\n" /\ Len(t) > 1 /\ t[2] = "\n" THEN CollapseNewlines(Tail(t))
    ELSE <<Head(t)>> \o CollapseNewlines(Tail(t))

\* The characters re.sub(r'[^\w\s\.\,\;\:\!\?\-\(\)]', '', text) keeps.
WordChars == {"a", "b", "c", "A", "B", "C"}
Punctuation == {".", ",", ";", ":", "!", "?", "-", "(", ")"}
KeptChar(c) == c \in WordChars \cup Whitespace \cup Punctuation

clean_text(t) ==
    Strip(SelectSeq(CollapseNewlines(CollapseWhitespace(t)), KeptChar))

\* create_chunks run to its return: the loop of ChunkScan and ChunkReturn.
\* done is FALSE when the loop is still running after MaxIters iterations.
RECURSIVE RunChunks(_, _, _, _, _, _)
RunChunks(t, cs, ov, st, chs, n) ==
    IF st >= Len(t) THEN [done |-> TRUE, chunks |-> chs]
    ELSE IF n >= MaxIters THEN [done |-> FALSE, chunks |-> chs]
    ELSE LET r == ChunkIter(t, cs, ov, st, chs)
         IN  IF r.start >= Len(t) THEN [done |-> TRUE, chunks |-> r.chunks]
             ELSE RunChunks(t, cs, ov, r.start, r.chunks, n + 1)

create_chunks(t) == RunChunks(t, ScaledChunkSize, ScaledOverlap, 0, <<>>, 0)

(***************************************************************************)
(* SimpleDocumentQAProcessor.simple_text_search                            *)
(***************************************************************************)
LowerChar(c) ==
    CASE c = "A" -> "a" [] c = "B" -> "b" [] c = "C" -> "c" [] OTHER -> c
\* t.lower()
Lower(t) == [i \in 1..Len(t) |-> LowerChar(t[i])]

\* set(t.split()): the maximal runs of non-whitespace characters.
Words(t) ==
    LET n == Len(t)
        IsWord(i, j) ==
            /\ i <= j
            /\ \A k \in i..j : ~IsSpace(t[k])
            /\ (i = 1 \/ IsSpace(t[i - 1]))
            /\ (j = n \/ IsSpace(t[j + 1]))
    IN  {SubSeq(t, p[1], p[2]) : p \in {q \in (1..n) \X (1..n) : IsWord(q[1], q[2])}}

\* needle in hay
Contains(hay, needle) ==
    \E i \in 0..(Len(hay) - Len(needle)) : SubSeq(hay, i + 1, i + Len(needle)) = needle

\* The score of one chunk, as the fraction num/den: the share of the query's
\* words found among the chunk's words, plus 0.5 (den/2) for a phrase match.
ScoreOf(q, chunk) ==
    LET query_words == Words(Lower(q))
        chunk_text == Lower(chunk.text)
        chunk_words == Words(chunk_text)
        common_words == query_words \cap chunk_words
        den == IF query_words # {} THEN 2 * Cardinality(query_words) ELSE 2
        base == IF query_words # {} THEN 2 * Cardinality(common_words) ELSE 0
    IN  [num |-> base + (IF Contains(chunk_text, Lower(q)) THEN den \div 2 ELSE 0),
         den |-> den]

ScoreLess(a, b) == a.num * b.den < b.num * a.den

\* The loop over the chunks: the entries with score > 0, in chunk order.
RECURSIVE ScoredChunks(_, _)
ScoredChunks(q, chs) ==
    IF chs = <<>> THEN <<>>
    ELSE LET score == ScoreOf(q, Head(chs))
             rest == ScoredChunks(q, Tail(chs))
         IN  IF score.num > 0
               THEN <<[chunk |-> Head(chs), score |-> score, text |-> Head(chs).text]>> \o rest
               ELSE rest

\* A faulty sort: an entry goes before the entries of equal score.
RECURSIVE InsertDescUnstable(_, _)
InsertDescUnstable(sorted, x) ==
    IF sorted = <<>> THEN <<x>>
    ELSE IF ~ScoreLess(x.score, Head(sorted).score) THEN <<x>> \o sorted
    ELSE <<Head(sorted)>> \o InsertDescUnstable(Tail(sorted), x)

\* list.sort(key=score, reverse=True) is stable: an entry goes after every
\* entry whose score is at least its own.
RECURSIVE InsertDesc(_, _)
InsertDesc(sorted, x) ==
    IF sorted = <<>> THEN <<x>>
    ELSE IF ScoreLess(Head(sorted).score, x.score) THEN <<x>> \o sorted
    ELSE <<Head(sorted)>> \o InsertDesc(Tail(sorted), x)

RECURSIVE SortByScoreDesc(_)
SortByScoreDesc(entries) ==
    IF entries = <<>> THEN <<>>
    ELSE InsertDesc(SortByScoreDesc(SubSeq(entries, 1, Len(entries) - 1)),
                    entries[Len(entries)])

simple_text_search(chs, q, k) ==
    IF chs = <<>> THEN <<>>
    ELSE Slice(SortByScoreDesc(ScoredChunks(q, chs)), 0, k)

DocAlphabet == {"a", "A", " "}
Queries ==
    { <<>>, <<" ">>, <<"a">>, <<"A">>, <<"a", "a">>, <<"a", "a", "a">>,
      <<"a", " ", "a">>, <<"A", " ", "a", "a">>, <<"a", "a", " ", "a">>,
      <<"a", " ", " ", "a", "a">>, <<"b">>, <<"a", " ", "b">> }

\* The processor after process_document has ingested some document.
SearchInit ==
    /\ \E raw \in SeqsUpTo(DocAlphabet, MaxDocLen) :
         LET run == create_chunks(clean_text(raw))
         IN  /\ run.done
             /\ document_text = clean_text(raw)
             /\ document_chunks = run.chunks
    /\ ai_enabled = FALSE
    /\ qpc = "off"
    /\ last = NoOp
    /\ nops = 0
    /\ seen = NothingSeen
    /\ batch = NoBatch
    /\ temp_files = NoTempFiles
    /\ query \in Queries
    /\ top_k \in 0..MaxTopK
    /\ results = <<>>
    /\ spc = "ready"

Search ==
    /\ spc = "ready"
    /\ results' = simple_text_search(document_chunks, query, top_k)
    /\ spc' = "done"
    /\ UNCHANGED <<query, top_k>>
    /\ UNCHANGED <<genVars, chunkVars, qaVars, serveVars>>

InitSearch == SearchInit /\ GenOff /\ ChunkOff /\ ServeOff

SpecSearch == InitSearch /\ [][Search]_vars

(***************************************************************************)
(* Claims about simple_text_search (checked under SpecSearch).             *)
(***************************************************************************)
\* Twice the number of query words times the score the claim gives chunk i.
QueryWordCount == Cardinality(Words(Lower(query)))
ClaimedScore(i) ==
    LET c == Lower(document_chunks[i].text)
        overlap == Cardinality({w \in Words(Lower(query)) : w \in Words(c)})
    IN  (IF QueryWordCount = 0 THEN 0 ELSE 2 * overlap)
          + (IF Contains(c, Lower(query)) THEN Max(QueryWordCount, 1) ELSE 0)
Positive == {i \in 1..Len(document_chunks) : ClaimedScore(i) > 0}
RanksBefore(i, j) ==
    \/ ClaimedScore(i) > ClaimedScore(j)
    \/ ClaimedScore(i) = ClaimedScore(j) /\ i < j
RankOf(i) == 1 + Cardinality({j \in Positive : RanksBefore(j, i)})

\* C8: simple_text_search returns the first top_k entries of the chunks that
\* score above 0, sorted by descending score with equal scores in chunk
\* order, each entry carrying its chunk, the chunk's text and the score
\* |words(query) /\ words(chunk)| / |words(query)| (+ 0.5 on a phrase match);
\* the result is empty when no chunk scores above 0.
C8_SearchRanksTopK ==
    spc = "done" =>
        /\ Len(results) = Min(top_k, Cardinality(Positive))
        /\ \A r \in 1..Len(results) :
             \E i \in Positive :
                /\ RankOf(i) = r
                /\ results[r].chunk = document_chunks[i]
                /\ results[r].text = document_chunks[i].text
                /\ results[r].score.num * 2 * Max(QueryWordCount, 1)
                     = ClaimedScore(i) * results[r].score.den
        /\ (Positive = {} => results = <<>>)

C8_Witness ==
    /\ spc = "done"
    /\ top_k = 2
    /\ Cardinality(Positive) = 3
    /\ Len(results) = 2
    /\ results[1].score = results[2].score
    /\ results[1].chunk.id < results[2].chunk.id
    /\ \E i \in Positive : ClaimedScore(i) < ClaimedScore(results[1].chunk.id + 1)

(***************************************************************************)
(* SimpleDocumentQAProcessor: process_document and answer_question         *)
(***************************************************************************)
\* generate_answer run to its return from cursor idx, attempt att, with the
\* outcomes outs of its attempts: the result and the cursor afterwards.
RECURSIVE generate_answer(_, _, _, _)
generate_answer(keys, idx, outs, att) ==
    IF att >= max_retries THEN [ret |-> "None", idx |-> idx, sent |-> att]
    ELSE LET h == HandleOutcome(outs[att + 1], att)
             nxt == NextIndex(keys, idx)
         IN  CASE h.do = "return" -> [ret |-> "answer", idx |-> nxt, sent |-> att + 1]
               [] h.do = "next" -> generate_answer(keys, nxt, outs, att + 1)
               [] OTHER -> [ret |-> "raised", idx |-> nxt, sent |-> att + 1]

\* What extract_text_from_pdf makes of the bytes: it raises, or returns text.
Unreadable == [ok |-> FALSE, text |-> <<>>]
Readable(t) == [ok |-> TRUE, text |-> t]
PdfInputs ==
    { Unreadable,
      Readable(<<>>),
      Readable(<<" ", "#", " ">>),
      Readable(<<"A", " ", "\n", "b", "#">>),
      Readable(<<"a", " ", "b", " ", "c", "a">>),
      Readable(<<"a", "b", " ", "c", "c", "c", "c">>) }

Questions == { <<"a">>, <<"B">>, <<"b", " ", "c", "a">>, <<"d">> }

\* The outcomes of the attempts of one generate_answer call.
AttemptOutcomes ==
    [1..max_retries -> {OkOutcome, BadBodyOutcome, StatusOutcome(503), StatusOutcome(404)}]

\* What the process does once create_chunks has used up the memory: the
\* MemoryError is caught by process_document, or it is raised again while the
\* handler builds its result, or the process never gets that far.
ExhaustionOutcomes == {"caught", "raised", "hung"}

ChunksOf(entries) == [i \in 1..Len(entries) |-> entries[i].chunk]

\* __init__: with credentials in the environment an AIAnswerGenerator is built,
\* without any ai_generator is None and ai_enabled is False.
QAInit ==
    /\ ai_enabled \in BOOLEAN
    /\ api_keys \in (IF ai_enabled THEN Pools ELSE {<<>>})
    /\ current_key_index = 0
    /\ gpc = "idle"
    /\ attempt = 0
    /\ reqs = <<>>
    /\ ret = "pending"
    /\ history = <<>>
    /\ document_text = <<>>
    /\ document_chunks = <<>>
    /\ qpc = "ready"
    /\ last = NoOp
    /\ nops = 0
    /\ seen = NothingSeen
    /\ batch = NoBatch
    /\ temp_files = NoTempFiles

\* extract_text_from_pdf(pdf_content): the bytes go to a NamedTemporaryFile
\* (delete=False) that os.unlink removes at line 72, after the pages were read;
\* left is the number of temporary files still on disk when it exits.
extract_text_from_pdf(pdf) ==
    IF pdf.ok
      THEN [ok |-> TRUE, text |-> pdf.text, left |-> 0]
      ELSE \* PdfReader or extract_text raises: line 72 is skipped
           [ok |-> FALSE, text |-> pdf.text, left |-> 1]

\* The result dictionary of process_document.
ProcessResult(outcome, success, pdf) ==
    Call("process", outcome, success, IF success THEN "ok" ELSE "error", <<>>, "-",
         pdf.text, <<>>, "-")

\* self.document_processor.clean_text(raw_text) and create_chunks of it, for
\* every document of PdfInputs (tabulated, so that each is computed once).
CleanedText == [p \in PdfInputs |-> clean_text(p.text)]
Chunked == [p \in PdfInputs |-> create_chunks(CleanedText[p])]

\* The body of process_document on the document state (dtext, dchunks): the
\* state it leaves and what the caller gets.
Ingest(pdf, exhausted, dtext, dchunks) ==
    IF ~pdf.ok
      THEN \* extract_text_from_pdf raises: nothing was assigned yet
           [text |-> dtext, chunks |-> dchunks, left |-> extract_text_from_pdf(pdf).left,
            result |-> ProcessResult("returned", FALSE, pdf)]
      ELSE LET cleaned == CleanedText[pdf]
               run == Chunked[pdf]
           IN  IF run.done
                 THEN [text |-> cleaned, chunks |-> run.chunks,
                       left |-> extract_text_from_pdf(pdf).left,
                       result |-> ProcessResult("returned", TRUE, pdf)]
                 ELSE \* create_chunks never returns: the chunk list grows
                      \* until memory runs out
                      [text |-> cleaned, chunks |-> dchunks,
                       left |-> extract_text_from_pdf(pdf).left,
                       result |-> ProcessResult(
                                    CASE exhausted = "caught" -> "returned"
                                      [] exhausted = "raised" -> "raised"
                                      [] OTHER -> "none",
                                    FALSE, pdf)]

\* process_document(pdf_content)
process_document(pdf, exhausted) ==
    /\ qpc = "ready"
    /\ nops < MaxOps
    /\ nops' = nops + 1
    /\ LET r == Ingest(pdf, exhausted, document_text, document_chunks)
       IN  /\ document_text' = r.text
           /\ document_chunks' = r.chunks
           /\ last' = r.result
           /\ qpc' = IF r.result.outcome = "none" THEN "hung" ELSE qpc
           /\ seen' = [called |-> TRUE, succeeded |-> seen.succeeded \/ r.result.success]
           /\ temp_files' = [temp_files EXCEPT !.extract = @ + r.left]
    /\ UNCHANGED <<ai_enabled, batch, genVars, chunkVars, searchVars, serveVars>>

\* A faulty result: the 'no document' dictionary reports success.
NoDocumentResultOk(q) ==
    Call("answer", "returned", TRUE, "no_document", <<>>, "0.0", q, <<>>, "-")
\* The dictionary returned when self.document_chunks is empty.
NoDocumentResult(q) ==
    Call("answer", "returned", FALSE, "no_document", <<>>, "0.0", q, <<>>, "-")

\* The body of answer_question on the chunks dchunks and the cursor idx; outs
\* are the outcomes of the completion requests, blank whether a returned
\* completion is empty once stripped.
Answer(q, outs, blank, dchunks, idx) ==
    LET relevant_chunks == simple_text_search(dchunks, q, 3)
        run == generate_answer(api_keys, idx, outs, 0)
        ai_answer == IF run.ret = "answer"
                       THEN (IF blank THEN "empty" ELSE "text")
                       ELSE run.ret
    IN  CASE dchunks = <<>> ->
               [result |-> NoDocumentResult(q), idx |-> idx]
          [] dchunks # <<>> /\ relevant_chunks = <<>> ->
               [result |-> Call("answer", "returned", FALSE, "no_relevant", <<>>, "0.0",
                                q, relevant_chunks, "-"),
                idx |-> idx]
          [] dchunks # <<>> /\ relevant_chunks # <<>> /\ ~ai_enabled ->
               \* self.ai_generator is None: the AttributeError is caught
               [result |-> Call("answer", "returned", FALSE, "error", <<>>, "0.0",
                                q, relevant_chunks, "-"),
                idx |-> idx]
          [] OTHER ->
               [result |->
                  CASE ai_answer = "text" ->
                         Call("answer", "returned", TRUE, "ai",
                              ChunksOf(relevant_chunks), "0.8", q, relevant_chunks,
                              ai_answer)
                    [] ai_answer \in {"empty", "None"} ->
                         Call("answer", "returned", FALSE, "failed",
                              ChunksOf(relevant_chunks), "0.0", q, relevant_chunks,
                              ai_answer)
                    [] OTHER ->
                         Call("answer", "returned", FALSE, "error", <<>>, "0.0",
                              q, relevant_chunks, ai_answer),
                idx |-> run.idx]

\* answer_question(question)
answer_question(q, outs, blank) ==
    /\ qpc = "ready"
    /\ nops < MaxOps
    /\ nops' = nops + 1
    /\ LET r == Answer(q, outs, blank, document_chunks, current_key_index)
       IN  /\ last' = r.result
           /\ current_key_index' = r.idx
    /\ UNCHANGED <<ai_enabled, document_text, document_chunks, qpc, seen, batch,
                   temp_files>>
    /\ UNCHANGED <<api_keys, gpc, attempt, reqs, ret, history>>
    /\ UNCHANGED <<chunkVars, searchVars, serveVars>>

QANext ==
    \/ \E pdf \in PdfInputs, e \in ExhaustionOutcomes : process_document(pdf, e)
    \/ \E q \in Questions, outs \in AttemptOutcomes, blank \in BOOLEAN :
         answer_question(q, outs, blank)

InitQA == QAInit /\ ChunkOff /\ SearchOff /\ ServeOff

SpecQA == InitQA /\ [][QANext]_vars

(***************************************************************************)
(* Claims about the orchestrator (checked under SpecQA).                   *)
(***************************************************************************)
\* C9: when a document is ingested and retrieval for the question is
\* non-empty, answer_question returns context_used equal to the retrieved
\* chunks, with success and confidence 0.8 if the completion client returned
\* an answer string, and failure and confidence 0 if it returned None; there
\* is no other outcome, whatever the credentials.
C9_AnswerOutcomes ==
    (last.op = "answer" /\ last.retrieved # <<>>) =>
        /\ last.context_used = ChunksOf(last.retrieved)
        /\ \/ last.gen \in {"text", "empty"} /\ last.success /\ last.confidence = "0.8"
           \/ last.gen = "None" /\ ~last.success /\ last.confidence = "0.0"

\* C10: a process_document call that fails returns success=false and leaves
\* document_text and document_chunks as they were before the call.
C10_FailedIngestKeepsState ==
    [][(nops' # nops /\ last'.op = "process"
            /\ last'.outcome \in {"returned", "raised"} /\ ~last'.success)
         => /\ last'.outcome = "returned"
            /\ document_text' = document_text
            /\ document_chunks' = document_chunks]_vars

\* C11: answer_question called before any process_document call returns
\* success=false, confidence 0.0 and an empty context_used, whatever the
\* question.
C11_AnswerBeforeIngest ==
    (last.op = "answer" /\ ~seen.called) =>
        /\ last.outcome = "returned"
        /\ ~last.success
        /\ last.confidence = "0.0"
        /\ last.context_used = <<>>

C11_Witness ==
    /\ last.op = "answer" /\ ~seen.called /\ nops = 2
    /\ last.input = <<"b", " ", "c", "a">>
    /\ ai_enabled

\* C15: in generate_answer every sleep is followed by another attempt: a
\* completed call has not slept after its last request, so a call of 3
\* attempts has slept at most twice.
C15_SleepThenAttempt ==
    GenCompleted =>
        \A i \in 1..Len(reqs) : reqs[i].sleep > 0 => i < Len(reqs)

\* C16: every chunk emitted by create_chunks has valid offsets,
\* 0 <= start_pos < end_pos <= len(text), and its text is the trimmed
\* text[start_pos:end_pos].
C16_ValidOffsets ==
    \A i \in 1..Len(chunks) :
        /\ 0 <= chunks[i].start_pos
        /\ chunks[i].start_pos < chunks[i].end_pos
        /\ chunks[i].end_pos <= Len(text)
        /\ chunks[i].text = Strip(Slice(text, chunks[i].start_pos, chunks[i].end_pos))

\* C17: once a process_document call has reported success, answer_question
\* never returns the 'no document has been processed yet' outcome.
C17_NoDocumentOnlyBeforeIngest ==
    (last.op = "answer" /\ seen.succeeded) => last.answer # "no_document"

----------------------------------------------------------------------------
\* process_document_and_answer

MaxQuestions == 2
MaxBatches == 2

\* Where the document bytes come from: no argument at all, a path that cannot
\* be opened, a path whose file holds the bytes pdf, or the bytes themselves.
Sources ==
    {[kind |-> k, pdf |-> Unreadable] : k \in {"none", "missing"}}
    \cup {[kind |-> k, pdf |-> p] : k \in {"path", "content"}, p \in PdfInputs}

BatchQuestions == {<<"a">>, <<"d">>}
QuestionLists == SeqsUpTo(BatchQuestions, MaxQuestions)

\* What the completion service does for one question of the list.
BatchPicks ==
    {[outs |-> [i \in 1..max_retries |-> OkOutcome], blank |-> FALSE],
     [outs |-> [i \in 1..max_retries |-> OkOutcome], blank |-> TRUE],
     [outs |-> [i \in 1..max_retries |-> StatusOutcome(503)], blank |-> FALSE]}

\* One entry of the returned list: its text (kind) and the question of the
\* loop iteration that appended it (pos = 0, q = <<>> when there was none).
Entry(pos, q, kind) == [pos |-> pos, q |-> q, kind |-> kind]

\* The comprehension [msg for _ in questions].
Repeat(questions, kind) ==
    [i \in 1..Len(questions) |-> Entry(i, questions[i], kind)]

\* The except clause, lines 369-371.
ExceptAnswers(questions) ==
    IF questions # <<>>
      THEN Repeat(questions, "processing_failed")
      ELSE <<Entry(0, <<>>, "processing_failed")>>

\* The loop over the questions, lines 359-365, from question i on.
RECURSIVE AnswerAll(_, _, _, _, _, _)
AnswerAll(questions, picks, dchunks, idx, i, acc) ==
    IF i > Len(questions)
      THEN [answers |-> acc, idx |-> idx]
      ELSE LET r == Answer(questions[i], picks[i].outs, picks[i].blank, dchunks, idx)
               kind == IF r.result.success THEN "answer" ELSE "error"
           IN  AnswerAll(questions, picks, dchunks, r.idx, i + 1,
                         Append(acc, Entry(i, questions[i], kind)))

\* What process_document_and_answer leaves and returns.
BatchResult(dtext, dchunks, idx, left, ingested, success, outcome, answers) ==
    [text |-> dtext, chunks |-> dchunks, idx |-> idx, left |-> left,
     ingested |-> ingested, success |-> success, outcome |-> outcome,
     answers |-> answers]

\* Lines 353-367: r is what process_document left and returned; outer says
\* whether the except clause of line 369 completes once memory has run out.
AfterIngest(r, questions, picks, outer, idx) ==
    CASE r.result.outcome = "none" ->
           BatchResult(r.text, r.chunks, idx, r.left, TRUE, FALSE, "none", <<>>)
      [] r.result.outcome = "raised" /\ outer = "caught" ->
           BatchResult(r.text, r.chunks, idx, r.left, TRUE, FALSE, "returned",
                       ExceptAnswers(questions))
      [] r.result.outcome = "raised" /\ outer # "caught" ->
           BatchResult(r.text, r.chunks, idx, r.left, TRUE, FALSE, "raised", <<>>)
      [] r.result.outcome = "returned" /\ ~r.result.success ->
           BatchResult(r.text, r.chunks, idx, r.left, TRUE, FALSE, "returned",
                       Repeat(questions, "document_error"))
      [] OTHER ->
           LET all == AnswerAll(questions, picks, r.chunks, idx, 1, <<>>)
           IN  BatchResult(r.text, r.chunks, all.idx, r.left, TRUE, TRUE, "returned",
                           all.answers)

\* The body of process_document_and_answer on the document state and the
\* cursor; exhausted is how a process_document that runs out of memory ends.
Batch(source, questions, picks, exhausted, outer, dtext, dchunks, idx) ==
    IF source.kind \in {"none", "missing"}
      THEN \* ValueError of line 347, or open() raises
           BatchResult(dtext, dchunks, idx, 0, FALSE, FALSE, "returned",
                       ExceptAnswers(questions))
      ELSE AfterIngest(Ingest(source.pdf, exhausted, dtext, dchunks),
                       questions, picks, outer, idx)

\* process_document_and_answer(pdf_path, pdf_content, questions)
process_document_and_answer(source, questions, picks, exhausted, outer) ==
    /\ qpc = "ready"
    /\ nops < MaxBatches
    /\ nops' = nops + 1
    /\ \E b \in {Batch(source, questions, picks, exhausted, outer,
                       document_text, document_chunks, current_key_index)} :
           /\ document_text' = b.text
           /\ document_chunks' = b.chunks
           /\ current_key_index' = b.idx
           /\ batch' = [outcome |-> b.outcome, source |-> source.kind,
                        questions |-> questions, answers |-> b.answers]
           /\ qpc' = IF b.outcome = "none" THEN "hung" ELSE qpc
           /\ seen' = [called |-> seen.called \/ b.ingested,
                       succeeded |-> seen.succeeded \/ b.success]
           /\ temp_files' = [temp_files EXCEPT !.extract = @ + b.left]
    /\ UNCHANGED <<ai_enabled, last>>
    /\ UNCHANGED <<api_keys, gpc, attempt, reqs, ret, history>>
    /\ UNCHANGED <<chunkVars, searchVars, serveVars>>

Diverges(source) ==
    /\ source.kind \in {"path", "content"}
    /\ source.pdf.ok
    /\ ~Chunked[source.pdf].done

BatchNext ==
    \E source \in Sources, questions \in QuestionLists :
        \E picks \in [1..Len(questions) -> BatchPicks] :
            \E exhausted \in IF Diverges(source) THEN ExhaustionOutcomes ELSE {"caught"} :
                \E outer \in IF Diverges(source) /\ exhausted = "raised"
                                THEN {"caught", "raised"} ELSE {"caught"} :
                    process_document_and_answer(source, questions, picks, exhausted, outer)

InitBatch == QAInit /\ ChunkOff /\ SearchOff /\ ServeOff
SpecBatch == InitBatch /\ [][BatchNext]_vars

\* C12: process_document_and_answer never raises and returns exactly one
\* answer per question, the i-th answer for the i-th question, on every path.
C12_OneAnswerPerQuestion ==
    batch.outcome # "none" =>
        /\ batch.outcome = "returned"
        /\ Len(batch.answers) = Len(batch.questions)
        /\ \A i \in 1..Len(batch.answers) :
              batch.answers[i].pos = i /\ batch.answers[i].q = batch.questions[i]

\* C13: with an empty question list process_document_and_answer returns an
\* empty answer list, whatever the document source.
C13_NoQuestionsNoAnswers ==
    (batch.outcome # "none" /\ batch.questions = <<>>) =>
        (batch.outcome = "returned" /\ batch.answers = <<>>)

----------------------------------------------------------------------------
\* The /hackrx/run handler, process_questions, on the process-wide processor

\* What the download gives: an HTTP error, or the bytes of a document.
HttpError == [ok |-> FALSE, text |-> <<"4", "0", "4">>]
Downloads ==
    { HttpError,
      Unreadable,
      Readable(<<"A", " ", "\n", "b", "#">>),
      Readable(<<"a", " ", "b", " ", "c", "a">>),
      Readable(<<"a", "b", " ", "c", "c", "c", "c">>) }

\* request.questions
ServeQuestionLists == { <<>>, << <<"a">> >>, << <<"b">>, <<"a">> >> }

\* A faulty event loop: the completion request suspends the handler too.
SuspensionPointsWithCompletion == {"download", "answer"}
\* The awaits of the handler that give the event loop to another request:
\* client.get. The awaited process_document_and_answer, process_document and
\* answer_question never suspend: generate_answer is a plain function that
\* blocks in requests.post and time.sleep.
SuspensionPoints == {"download"}

\* The request the event loop runs after request i has reached point.
Yield(i, point) == IF point \in SuspensionPoints THEN 0 ELSE i

CanRun(i) == running \in {0, i}

\* The requests received and not answered yet.
InProgress == {j \in Requests : inflight[j].pc \notin {"new", "done"}}

\* Lines 97-117: the handler starts and awaits the download.
HandlerStart(i, questions) ==
    /\ inflight[i].pc = "new"
    /\ CanRun(i)
    /\ inflight' =
          [j \in Requests |->
             IF j = i
               THEN [inflight[i] EXCEPT !.pc = "download", !.questions = questions,
                                        !.overlapped = InProgress # {}]
               ELSE [inflight[j] EXCEPT !.overlapped = @ \/ j \in InProgress]]
    /\ running' = Yield(i, "download")
    /\ UNCHANGED <<genVars, chunkVars, qaVars, searchVars>>

\* Lines 117-124 and 140-141: the download ends; an HTTP error is answered
\* with 400, otherwise the bytes go to a temporary file.
HandlerDownloaded(i, d) ==
    /\ inflight[i].pc = "download"
    /\ CanRun(i)
    /\ IF d = HttpError
         THEN /\ inflight' = [inflight EXCEPT ![i].pc = "done", ![i].status = 400]
              /\ running' = 0
              /\ UNCHANGED temp_files
         ELSE /\ inflight' = [inflight EXCEPT ![i].pc = "ingest", ![i].doc = d,
                                              ![i].temp = TRUE]
              /\ running' = Yield(i, "ingest")
              /\ temp_files' = [temp_files EXCEPT !.handler = @ + 1]
    /\ UNCHANGED <<ai_enabled, document_text, document_chunks, qpc, last, nops, seen,
                   batch>>
    /\ UNCHANGED <<genVars, chunkVars, searchVars>>

\* process_document_and_answer(pdf_path=temp_path, ...) up to line 356.
HandlerIngest(i, exhausted, outer) ==
    /\ inflight[i].pc = "ingest"
    /\ CanRun(i)
    /\ \E r \in {Ingest(inflight[i].doc, exhausted, document_text, document_chunks)} :
         LET me == inflight[i]
             to(pc, answers, err) ==
                 [inflight EXCEPT ![i].pc = pc, ![i].answers = answers, ![i].err = err]
         IN  /\ document_text' = r.text
             /\ document_chunks' = r.chunks
             /\ temp_files' = [temp_files EXCEPT !.extract = @ + r.left]
             /\ seen' = [called |-> TRUE,
                         succeeded |-> seen.succeeded \/ r.result.success]
             /\ CASE r.result.outcome = "none" ->
                       inflight' = to("hung", <<>>, FALSE) /\ running' = i
                  [] r.result.outcome = "raised" /\ outer = "caught" ->
                       /\ inflight' = to("finish", ExceptAnswers(me.questions), FALSE)
                       /\ running' = Yield(i, "finish")
                  [] r.result.outcome = "raised" /\ outer # "caught" ->
                       /\ inflight' = to("finish", <<>>, TRUE)
                       /\ running' = Yield(i, "finish")
                  [] r.result.outcome = "returned" /\ ~r.result.success ->
                       /\ inflight' = to("finish", Repeat(me.questions, "document_error"),
                                         FALSE)
                       /\ running' = Yield(i, "finish")
                  [] OTHER ->
                       IF me.questions = <<>>
                         THEN /\ inflight' = to("finish", <<>>, FALSE)
                              /\ running' = Yield(i, "finish")
                         ELSE /\ inflight' = to("answer", <<>>, FALSE)
                              /\ running' = Yield(i, "answer")
    /\ UNCHANGED <<ai_enabled, qpc, last, nops, batch>>
    /\ UNCHANGED <<genVars, chunkVars, searchVars>>

\* Lines 359-365 of process_document_and_answer: one question of the loop.
HandlerAnswer(i, pick) ==
    /\ inflight[i].pc = "answer"
    /\ CanRun(i)
    /\ \E me \in {inflight[i]} :
       \E r \in {Answer(me.questions[me.next], pick.outs, pick.blank,
                        document_chunks, current_key_index)} :
       \E pc \in {IF me.next = Len(me.questions) THEN "finish" ELSE "answer"} :
         /\ current_key_index' = r.idx
         /\ inflight' =
               [inflight EXCEPT
                  ![i].answers = Append(@, Entry(me.next, me.questions[me.next],
                                     IF r.result.success THEN "answer" ELSE "error")),
                  ![i].used = Append(@, document_chunks),
                  ![i].next = @ + 1,
                  ![i].pc = pc]
         /\ running' = Yield(i, pc)
    /\ UNCHANGED <<api_keys, gpc, attempt, reqs, ret, history>>
    /\ UNCHANGED <<chunkVars, qaVars, searchVars>>

\* Lines 131-143: the finally clause removes the temporary file, then the
\* answers are returned, or 500 when the pipeline raised.
HandlerFinish(i) ==
    /\ inflight[i].pc = "finish"
    /\ CanRun(i)
    /\ inflight' = [inflight EXCEPT ![i].pc = "done", ![i].temp = FALSE,
                       ![i].status = IF inflight[i].err THEN 500 ELSE 200]
    /\ temp_files' = [temp_files EXCEPT !.handler = @ - 1]
    /\ running' = 0
    /\ UNCHANGED <<ai_enabled, document_text, document_chunks, qpc, last, nops, seen,
                   batch>>
    /\ UNCHANGED <<genVars, chunkVars, searchVars>>

ServeNext ==
    \E i \in Requests :
        \/ \E questions \in ServeQuestionLists : HandlerStart(i, questions)
        \/ \E d \in Downloads : HandlerDownloaded(i, d)
        \/ \E exhausted \in ExhaustionOutcomes, outer \in {"caught", "raised"} :
              HandlerIngest(i, exhausted, outer)
        \/ \E pick \in BatchPicks : HandlerAnswer(i, pick)
        \/ HandlerFinish(i)

InitServe == QAInit /\ ChunkOff /\ SearchOff /\ ServeOff
SpecServe == InitServe /\ [][ServeNext]_vars

\* C14: a temporary file made by extract_text_from_pdf is gone when
\* extract_text_from_pdf has exited, and the one made by the handler is gone
\* when the handler has answered, on every path.
C14_TempFilesDeleted ==
    /\ temp_files.extract = 0
    /\ \A i \in Requests : inflight[i].pc = "done" => ~inflight[i].temp
    /\ temp_files.handler = Cardinality({i \in Requests : inflight[i].temp})

\* C18: when two requests overlap, every answer of a request is computed
\* from the chunks of that request's own document.
C18_OwnDocumentAnswers ==
    \A i \in Requests :
        \A k \in 1..Len(inflight[i].used) :
            inflight[i].used[k] = Chunked[inflight[i].doc].chunks

C18_Witness ==
    /\ \A i \in Requests :
          /\ inflight[i].overlapped
          /\ inflight[i].status = 200
          /\ Len(inflight[i].used) = 2
          /\ inflight[i].answers[2].kind = "answer"
    /\ Chunked[inflight[1].doc].chunks # Chunked[inflight[2].doc].chunks

====
